---- MODULE Spec2Model ----
(***************************************************************************)
(* State-machine model of the ipfs-cid-hoarder orchestration engine:       *)
(*   - the publisher pipeline (CidPublisher.Run, publishingProcess,        *)
(*     addProviderMsgListener),                                            *)
(*   - the pinger scheduler (CidPinger.Run, AddCidInfo, cidQueue).          *)
(* Goroutines are processes with a program counter; every action is one    *)
(* statement (or one straight-line block) of the Go source.                *)
(***************************************************************************)
EXTENDS Bags, FiniteSets, Integers, Sequences, TLC

\* ------------------------------------------------------------------ bounds
NumCids == 3        \* CidInfos handed to the pinger
CidNumber == 2      \* CIDs the generator produces for the publisher
Workers == 2        \* publisher workers (CidPublisher.Workers)
PingWorkers == 1    \* pinger workers (CidPinger.workers)
K == 2              \* replication width (CidPublisher.K)
MaxRounds == 2      \* CidPinger.rounds is drawn from 1..MaxRounds
MaxTime == 3        \* the clock stops after MaxTime ticks of minIterTime
ReqInterval == 1    \* CidInfo.ReqInterval, in ticks of minIterTime
CidChanCap == 1     \* capacity of the generator's CID channel
MaxObjs == 2        \* objects of each kind handed to the DBClient
SinkBuf == 2        \* capacity of each record channel (bufferSize)
NumProviders == 2   \* peers that may appear in a provider list
MaxDocs == 2        \* JSON documents in the encoded file
MaxRecs == 2        \* provider records in one document
MaxNotified == 1    \* notifications that belong to no provide call of the run

maxDialAttempts == 3

Cids == 1..NumCids
PubCids == 1..CidNumber
Publishers == 1..Workers
Pingers == 1..PingWorkers
Peers == 1..K
Nil == 0

\* the four record channels of the DBClient, one persister goroutine each
Kinds == {"cidInfo", "peerInfo", "fetchResult", "pingResults"}
Objs == 1..MaxObjs

\* peers of a provider list; the CID's Creator is one of them
ProvPeers == 1..NumProviders
Creator == 1

\* what host.Connect returns: nil or one of these errors
DialRaw == {"ok", "connection refused", "stream reset", "i/o timeout", "no route to host"}

VARIABLES
    \* ---- shared
    ctxDone,            \* root context cancelled
    now,                \* wall clock, in ticks of minIterTime
    cidSet,             \* keys of the process-wide cidSet
    cidInfo,            \* the *models.CidInfo objects, by CID
    dbFetch,            \* bag of Round values sent on DBClient.fetchResultC, by CID
    dbCidInfo,          \* number of sends on DBClient.cidInfoC, by CID
    \* ---- CidGenerator and CidPublisher.Run
    genCount, cidPubC, genDoneC, generationDoneC, publicationDoneC, runPc,
    \* ---- publishingProcess (one per publisher worker)
    pubPc, pubCid, generationDone,
    \* ---- round-0 rendezvous
    firstCidFetchRes,   \* sync.Map CID -> *CidFetchResults (round 0)
    provN,              \* ADD_PROVIDER events the ProvideCid call of a CID emits
    provEmitted,        \* ... of which already handed to the notifier
    provReturned,       \* ProvideCid of the CID has returned
    doneSent,           \* the listener's send on DoneC of the CID has completed
    finalized,          \* lines 710-716 have run for the CID
    msgNotChannel,      \* MsgNotifier channel
    lisPc, lisCid,      \* addProviderMsgListener
    \* ---- CidPinger
    rounds,             \* CidPinger.rounds
    init,               \* CidPinger.init
    callPc,             \* position of the AddCidInfo call made for each CidInfo
    cidMap,             \* cidQueue.cidMap (its key set)
    cidArray,           \* backing array of cidQueue.cidArray (Len = capacity)
    cidLen,             \* len(cidQueue.cidArray)
    rangeShared,        \* the range loop still iterates q's current backing array
    rangeArr,           \* backing array of the range loop once q reallocated
    rangeLen, rangeIdx, \* length fixed at loop entry, next index
    orchPc, orchCid, orchExit,
    tickPending,        \* a tick is buffered in minTimeT.C
    pingTaskC,          \* task channel (capacity = workers)
    wkPc, wkCid, wkRound, wkEnq,
    pingOrcDoneFlag, pingRunPc,
    enqCount,           \* tasks the orchestrator has put on pingTaskC, by CID
    \* ---- DBClient
    sinkC,              \* buffered record channels, by kind of record
    sinkSent,           \* objects handed to Add<Kind>, by kind
    sinkIns,            \* INSERTs attempted, by kind and object
    persPc, persItem,   \* the persister goroutine of each kind
    recvClosed,         \* the persister took a zero value from its closed channel
    chansClosed,        \* Close() has closed the record channels
    closePc,            \* DBClient.Close
    \* ---- CidPinger.PingPRHolder
    dials,              \* raw outcome of host.Connect, by attempt (input)
    provs,              \* peers returned by GetProvidersFromPeer (input)
    probePc, att, active, hasRecords, connError,
    connLog,            \* raw outcomes of the Connect calls made so far
    connOpen,           \* a connection to the holder is open
    probeResult,        \* the PRPingResults returned
    \* ---- JsonFileCIDSource, generateCids, readCIDs
    docs,               \* the JSON documents of the file(s) (input)
    jsonPc,
    encOut,             \* records of the source built by OpenEncodedJSONFile
    simpleOut,          \* records of the source built by OpenMultipleSimpleJSONFiles
    rdPc, rdIter, rdRes, rdOut,     \* readCIDs and the iterator of its source
    gcPc, gcLoop, gcIter, gcRes, gcOut, gcCalls,    \* generateCids and its source
    \* ---- MsgNotifier
    notified            \* notifications of other DHT traffic handed to the listener

sharedVars == <<ctxDone, now, cidSet, cidInfo, dbFetch, dbCidInfo>>
genVars == <<genCount, cidPubC, genDoneC>>
runVars == <<generationDoneC, publicationDoneC, runPc>>
workerVars == <<pubPc, pubCid, generationDone>>
provVars == <<provN, provEmitted, provReturned>>
lisVars == <<lisPc, lisCid>>
pubVars == <<genVars, runVars, workerVars, provVars, lisVars,
             firstCidFetchRes, doneSent, finalized, msgNotChannel>>
queueVars == <<cidMap, cidArray, cidLen, rangeShared, rangeArr>>
orchVars == <<rangeLen, rangeIdx, orchPc, orchCid, orchExit>>
wkVars == <<wkPc, wkCid, wkRound, wkEnq>>
pingVars == <<rounds, init, callPc, queueVars, orchVars, tickPending, pingTaskC,
              wkVars, pingOrcDoneFlag, pingRunPc, enqCount>>
sinkVars == <<sinkC, sinkSent, sinkIns, persPc, persItem, recvClosed, chansClosed, closePc>>
probeVars == <<dials, provs, probePc, att, active, hasRecords, connError, connLog,
               connOpen, probeResult>>
srcVars == <<docs, jsonPc, encOut, simpleOut, rdPc, rdIter, rdRes, rdOut,
             gcPc, gcLoop, gcIter, gcRes, gcOut, gcCalls>>
vars == <<sharedVars, pubVars, pingVars, sinkVars, probeVars, srcVars, notified>>

\* ------------------------------------------------------------ models package
\* zero value of the slot of a CidInfo that has not been constructed yet
NilCidInfo ==
    [PRHolders |-> {}, PingCounter |-> 0, NextPing |-> 0,
     PRFetchResults |-> <<>>, PublicationTime |-> FALSE]

\* models.NewCidInfo: no holder, no round, first ping one ReqInterval ahead
NewCidInfo(t) ==
    [PRHolders |-> {}, PingCounter |-> 0, NextPing |-> t + ReqInterval,
     PRFetchResults |-> <<>>, PublicationTime |-> FALSE]

\* slot of the sync.Map before Store
NilFetchRes == [stored |-> FALSE, PRPingResults |-> {}]

\* models.NewCidFetchResults for round 0
NewCidFetchResults == [stored |-> TRUE, PRPingResults |-> {}]

\* CidFetchResults.IsDone: one ping result per ADD_PROVIDER event of the provide call
IsDone(fr, n) == Cardinality(fr.PRPingResults) = n

\* CidInfo.IncreasePingCounter: one more round scheduled, next ping one interval later
IncreasePingCounter(ci) ==
    [ci EXCEPT !.PingCounter = @ + 1, !.NextPing = @ + ReqInterval]


\* ------------------------------------------------------------ initial state
\* state after NewCidPublisher / NewCidPinger and the start of both Run methods
InitCommon ==
    /\ ctxDone = FALSE
    /\ now = 0
    /\ genCount = 0 /\ cidPubC = <<>> /\ genDoneC = FALSE
    /\ generationDoneC = 0 /\ publicationDoneC = 0
    /\ provN = [c \in Cids |-> 0]
    /\ provEmitted = [c \in Cids |-> 0]
    /\ msgNotChannel = <<>>
    /\ lisCid = Nil
    /\ pubCid = [w \in Publishers |-> Nil]
    /\ generationDone = [w \in Publishers |-> FALSE]
    /\ init = FALSE
    /\ callPc = [c \in Cids |-> "idle"]
    /\ cidMap = {} /\ cidArray = <<>> /\ cidLen = 0
    /\ rangeShared = FALSE /\ rangeArr = <<>> /\ rangeLen = 0 /\ rangeIdx = 0
    /\ orchPc = "waitInit" /\ orchCid = Nil /\ orchExit = "none"
    /\ tickPending = FALSE
    /\ pingTaskC = <<>>
    /\ wkCid = [k \in Pingers |-> Nil]
    /\ wkRound = [k \in Pingers |-> 0]
    /\ wkEnq = [k \in Pingers |-> 0]
    /\ pingOrcDoneFlag = FALSE
    /\ enqCount = [c \in Cids |-> 0]
    /\ sinkC = [k \in Kinds |-> <<>>]
    /\ sinkSent = [k \in Kinds |-> 0]
    /\ sinkIns = [k \in Kinds |-> [o \in Objs |-> 0]]
    /\ persPc = [k \in Kinds |-> "select"]
    /\ persItem = [k \in Kinds |-> Nil]
    /\ recvClosed = [k \in Kinds |-> FALSE]
    /\ chansClosed = FALSE
    /\ closePc = "idle"
    /\ probePc = "idle" /\ att = 0
    /\ active = FALSE /\ hasRecords = FALSE /\ connError = ""
    /\ connLog = <<>> /\ connOpen = FALSE /\ probeResult = Nil
    /\ notified = 0

\* the publisher pipeline is about to start: empty cidSet, nothing published
PubStart ==
    /\ rounds = MaxRounds
    /\ cidSet = {}
    /\ cidInfo = [c \in Cids |-> NilCidInfo]
    /\ dbFetch = [c \in Cids |-> EmptyBag]
    /\ dbCidInfo = [c \in Cids |-> 0]
    /\ runPc = "waitGen"
    /\ pubPc = [w \in Publishers |-> "check"]
    /\ lisPc = "select"
    /\ firstCidFetchRes = [c \in Cids |-> NilFetchRes]
    /\ provReturned = [c \in Cids |-> FALSE]
    /\ doneSent = [c \in Cids |-> FALSE]
    /\ finalized = [c \in Cids |-> FALSE]
    /\ wkPc = [k \in Pingers |-> "check"]
    /\ pingRunPc = "waitOrch"

\* the zero TrackableCid (cid-tracker.go line 125)
Undef == "Undef"

\* the CID sources have not been opened: every variable but the input
SrcIdle ==
    /\ jsonPc = "idle" /\ encOut = <<>> /\ simpleOut = <<>>
    /\ rdPc = "call" /\ rdIter = 0 /\ rdRes = Undef /\ rdOut = <<>>
    /\ gcPc = "loop" /\ gcLoop = 0 /\ gcIter = 0 /\ gcRes = Undef /\ gcOut = <<>>
    /\ gcCalls = 0

\* no JSON file is given
NoSource ==
    /\ docs = <<>>
    /\ SrcIdle

\* no probe is under way: every dial would succeed, no provider is known
NoProbe ==
    /\ dials = [i \in 1..maxDialAttempts |-> "ok"]
    /\ provs = {}

\* the publisher pipeline starts with an empty cidSet; the pinger gets no CidInfo
Init ==
    /\ InitCommon
    /\ PubStart
    /\ NoProbe
    /\ NoSource

\* ------------------------------------------------------------ root context
\* cancellation of the root context (ctx.Done() becomes readable everywhere)
Cancel ==
    /\ ~ctxDone
    /\ ctxDone' = TRUE
    /\ UNCHANGED <<now, cidSet, cidInfo, dbFetch, dbCidInfo, pubVars, pingVars, sinkVars, probeVars, srcVars, notified>>

\* ------------------------------------------------------------ CidGenerator
\* the generator puts the next CID on the channel it returned from Run()
GenCid ==
    /\ genCount < CidNumber
    /\ Len(cidPubC) < CidChanCap
    /\ genCount' = genCount + 1
    /\ cidPubC' = Append(cidPubC, genCount + 1)
    /\ UNCHANGED <<genDoneC, runVars, workerVars, provVars, lisVars,
                   firstCidFetchRes, doneSent, finalized, msgNotChannel>>
    /\ UNCHANGED <<sharedVars, pingVars, sinkVars, probeVars, srcVars, notified>>

\* the generator signals on genDoneC once every CID has been produced
GenDone ==
    /\ genCount = CidNumber
    /\ ~genDoneC
    /\ genDoneC' = TRUE
    /\ UNCHANGED <<genCount, cidPubC, runVars, workerVars, provVars, lisVars,
                   firstCidFetchRes, doneSent, finalized, msgNotChannel>>
    /\ UNCHANGED <<sharedVars, pingVars, sinkVars, probeVars, srcVars, notified>>

\* ------------------------------------------------------------ CidPublisher.Run
\* lines 531-533: <-genDoneC, then generationDoneC <- struct{}{} (capacity 1)
RunGenerationDone ==
    /\ runPc = "waitGen"
    /\ genDoneC
    /\ generationDoneC' = generationDoneC + 1
    /\ runPc' = "waitPublishers"
    /\ UNCHANGED <<publicationDoneC, genVars, workerVars, provVars, lisVars,
                   firstCidFetchRes, doneSent, finalized, msgNotChannel>>
    /\ UNCHANGED <<sharedVars, pingVars, sinkVars, probeVars, srcVars, notified>>

\* lines 535-537: publisherWG.Wait(), then publicationDoneC <- struct{}{}
RunPublicationDone ==
    /\ runPc = "waitPublishers"
    /\ \A w \in Publishers : pubPc[w] = "exited"
    /\ publicationDoneC' = publicationDoneC + 1
    /\ runPc' = "waitListener"
    /\ UNCHANGED <<generationDoneC, genVars, workerVars, provVars, lisVars,
                   firstCidFetchRes, doneSent, finalized, msgNotChannel>>
    /\ UNCHANGED <<sharedVars, pingVars, sinkVars, probeVars, srcVars, notified>>

\* lines 539-542: msgNotWG.Wait(), host.Close()
RunClose ==
    /\ runPc = "waitListener"
    /\ lisPc = "exited"
    /\ runPc' = "closed"
    /\ UNCHANGED <<generationDoneC, publicationDoneC, genVars, workerVars, provVars,
                   lisVars, firstCidFetchRes, doneSent, finalized, msgNotChannel>>
    /\ UNCHANGED <<sharedVars, pingVars, sinkVars, probeVars, srcVars, notified>>

\* ------------------------------------------------------------ publishingProcess
\* line 666: leave when generation is done and no CID is waiting
PubCheck(w) ==
    /\ pubPc[w] = "check"
    /\ pubPc' = [pubPc EXCEPT ![w] =
                    IF generationDone[w] /\ Len(cidPubC) = 0 THEN "exited" ELSE "select"]
    /\ UNCHANGED <<pubCid, generationDone, genVars, runVars, provVars, lisVars,
                   firstCidFetchRes, doneSent, finalized, msgNotChannel>>
    /\ UNCHANGED <<sharedVars, pingVars, sinkVars, probeVars, srcVars, notified>>

\* lines 671-683: case nextCid := <-cidChannel
PubRecvCid(w) ==
    /\ pubPc[w] = "select"
    /\ cidPubC # <<>>
    /\ pubCid' = [pubCid EXCEPT ![w] = Head(cidPubC)]
    /\ cidPubC' = Tail(cidPubC)
    /\ pubPc' = [pubPc EXCEPT ![w] = "addCid"]
    /\ UNCHANGED <<genCount, genDoneC, generationDone, runVars, provVars, lisVars,
                   firstCidFetchRes, doneSent, finalized, msgNotChannel>>
    /\ UNCHANGED <<sharedVars, pingVars, sinkVars, probeVars, srcVars, notified>>

\* the worker goes on to the provide call without registering the CidInfo
PubAddCidSkipped(w) ==
    /\ pubPc[w] = "addCid"
    /\ pubPc' = [pubPc EXCEPT ![w] = "store"]
    /\ UNCHANGED <<pubCid, generationDone, genVars, runVars, provVars, lisVars,
                   firstCidFetchRes, doneSent, finalized, msgNotChannel>>
    /\ UNCHANGED <<sharedVars, pingVars, sinkVars, probeVars, srcVars, notified>>

\* lines 676-686: models.NewCidInfo and publisher.cidSet.addCid(cidInfo)
PubAddCid(w) ==
    /\ pubPc[w] = "addCid"
    /\ cidSet' = cidSet \cup {pubCid[w]}
    /\ cidInfo' = [cidInfo EXCEPT ![pubCid[w]] = NewCidInfo(now)]
    /\ pubPc' = [pubPc EXCEPT ![w] = "store"]
    /\ UNCHANGED <<pubCid, generationDone, genVars, runVars, provVars, lisVars,
                   firstCidFetchRes, doneSent, finalized, msgNotChannel>>
    /\ UNCHANGED <<ctxDone, now, dbFetch, dbCidInfo, pingVars, sinkVars, probeVars, srcVars, notified>>

\* lines 687-690: NewCidFetchResults(round 0) and cidFetchRes.Store(cidStr, fetchRes)
PubStore(w) ==
    /\ pubPc[w] = "store"
    /\ firstCidFetchRes' = [firstCidFetchRes EXCEPT ![pubCid[w]] = NewCidFetchResults]
    /\ pubPc' = [pubPc EXCEPT ![w] = "provide"]
    /\ UNCHANGED <<pubCid, generationDone, genVars, runVars, provVars, lisVars,
                   doneSent, finalized, msgNotChannel>>
    /\ UNCHANGED <<sharedVars, pingVars, sinkVars, probeVars, srcVars, notified>>

\* line 692, entry of host.ProvideCid: the DHT will contact n <= K peers
\* (n = 0 when the provide fails before any ADD_PROVIDER is sent)
PubProvideStart(w) ==
    /\ pubPc[w] = "provide"
    /\ \E n \in 0..K : provN' = [provN EXCEPT ![pubCid[w]] = n]
    /\ pubPc' = [pubPc EXCEPT ![w] = "providing"]
    /\ UNCHANGED <<pubCid, generationDone, genVars, runVars, provEmitted, provReturned,
                   lisVars, firstCidFetchRes, doneSent, finalized, msgNotChannel>>
    /\ UNCHANGED <<sharedVars, pingVars, sinkVars, probeVars, srcVars, notified>>

\* line 692, inside host.ProvideCid: one ADD_PROVIDER RPC ends (with or without
\* error) and its notification is handed to the MsgNotifier
PubProvideEmit(w) ==
    /\ pubPc[w] = "providing"
    /\ provEmitted[pubCid[w]] < provN[pubCid[w]]
    /\ \E failed \in BOOLEAN :
          msgNotChannel' = Append(msgNotChannel,
              [Type |-> "ADD_PROVIDER", Key |-> pubCid[w], KeyOk |-> TRUE,
               RemotePeer |-> provEmitted[pubCid[w]] + 1, Error |-> failed])
    /\ provEmitted' = [provEmitted EXCEPT ![pubCid[w]] = @ + 1]
    /\ UNCHANGED <<provN, provReturned, genVars, runVars, workerVars, lisVars,
                   firstCidFetchRes, doneSent, finalized>>
    /\ UNCHANGED <<sharedVars, pingVars, sinkVars, probeVars, srcVars, notified>>

\* lines 692-704: host.ProvideCid returns, lookup metrics are copied
PubProvideReturn(w) ==
    /\ pubPc[w] = "providing"
    /\ provEmitted[pubCid[w]] = provN[pubCid[w]]
    /\ provReturned' = [provReturned EXCEPT ![pubCid[w]] = TRUE]
    /\ pubPc' = [pubPc EXCEPT ![w] = "waitDone"]
    /\ UNCHANGED <<pubCid, generationDone, genVars, runVars, provN, provEmitted,
                   lisVars, firstCidFetchRes, doneSent, finalized, msgNotChannel>>
    /\ UNCHANGED <<sharedVars, pingVars, sinkVars, probeVars, srcVars, notified>>

\* the worker goes on to the finalization without receiving from DoneC
PubWaitDoneSkipped(w) ==
    /\ pubPc[w] = "waitDone"
    /\ pubPc' = [pubPc EXCEPT ![w] = "finalize"]
    /\ UNCHANGED <<pubCid, generationDone, genVars, runVars, provVars, lisVars,
                   firstCidFetchRes, doneSent, finalized, msgNotChannel>>
    /\ UNCHANGED <<sharedVars, pingVars, sinkVars, probeVars, srcVars, notified>>

\* line 707 with line 626: <-fetchRes.DoneC meets the listener's send on the
\* same (unbuffered) channel
PubWaitDone(w) ==
    /\ pubPc[w] = "waitDone"
    /\ lisPc = "sendDone"
    /\ lisCid = pubCid[w]
    /\ doneSent' = [doneSent EXCEPT ![pubCid[w]] = TRUE]
    /\ lisPc' = "select"
    /\ lisCid' = Nil
    /\ pubPc' = [pubPc EXCEPT ![w] = "finalize"]
    /\ UNCHANGED <<pubCid, generationDone, genVars, runVars, provVars,
                   firstCidFetchRes, finalized, msgNotChannel>>
    /\ UNCHANGED <<sharedVars, pingVars, sinkVars, probeVars, srcVars, notified>>

\* lines 710-719 and 731: publication and provide time, AddPRFetchResults,
\* DBCli.AddCidInfo, DBCli.AddFetchResult, summary, ticker reset
PubFinalize(w) ==
    /\ pubPc[w] = "finalize"
    /\ cidInfo' = [cidInfo EXCEPT ![pubCid[w]] =
                      [@ EXCEPT !.PublicationTime = TRUE,
                                !.PRFetchResults = Append(@, 0)]]
    /\ dbCidInfo' = [dbCidInfo EXCEPT ![pubCid[w]] = @ + 1]
    /\ dbFetch' = [dbFetch EXCEPT ![pubCid[w]] = @ (+) SetToBag({0})]
    /\ finalized' = [finalized EXCEPT ![pubCid[w]] = TRUE]
    /\ pubCid' = [pubCid EXCEPT ![w] = Nil]
    /\ pubPc' = [pubPc EXCEPT ![w] = "check"]
    /\ UNCHANGED <<generationDone, genVars, runVars, provVars, lisVars,
                   firstCidFetchRes, doneSent, msgNotChannel>>
    /\ UNCHANGED <<ctxDone, now, cidSet, pingVars, sinkVars, probeVars, srcVars, notified>>

\* lines 721-723: case <-publisher.ctx.Done()
PubCtxDone(w) ==
    /\ pubPc[w] = "select"
    /\ ctxDone
    /\ pubPc' = [pubPc EXCEPT ![w] = "exited"]
    /\ UNCHANGED <<pubCid, generationDone, genVars, runVars, provVars, lisVars,
                   firstCidFetchRes, doneSent, finalized, msgNotChannel>>
    /\ UNCHANGED <<sharedVars, pingVars, sinkVars, probeVars, srcVars, notified>>

\* lines 725-726 and 731: case <-generationDoneC
PubGenerationDone(w) ==
    /\ pubPc[w] = "select"
    /\ generationDoneC > 0
    /\ generationDoneC' = generationDoneC - 1
    /\ generationDone' = [generationDone EXCEPT ![w] = TRUE]
    /\ pubPc' = [pubPc EXCEPT ![w] = "check"]
    /\ UNCHANGED <<pubCid, publicationDoneC, runPc, genVars, provVars, lisVars,
                   firstCidFetchRes, doneSent, finalized, msgNotChannel>>
    /\ UNCHANGED <<sharedVars, pingVars, sinkVars, probeVars, srcVars, notified>>

\* lines 728-731: case <-minIterTicker.C
PubTick(w) ==
    /\ pubPc[w] = "select"
    /\ pubPc' = [pubPc EXCEPT ![w] = "check"]
    /\ UNCHANGED <<pubCid, generationDone, genVars, runVars, provVars, lisVars,
                   firstCidFetchRes, doneSent, finalized, msgNotChannel>>
    /\ UNCHANGED <<sharedVars, pingVars, sinkVars, probeVars, srcVars, notified>>

\* ------------------------------------------------------------ addProviderMsgListener
\* the CID is looked up in the cidSet only; a missing round-0 slot goes unnoticed
SlotCheckSkipped(c) == c \notin cidSet

\* lines 586-597: the CidInfo is not in the cidSet, or the sync.Map has no round-0
\* slot for the CID (cid.Undef, the CID of an undecodable key, is in neither)
SlotMissing(c) == c \notin cidSet \/ ~firstCidFetchRes[c].stored

\* the completion signal is raised with the first ping result
RoundZeroDoneAtFirst(fr, c) == fr.PRPingResults # {}

\* line 624: if cidFetRes.IsDone()
RoundZeroDone(fr, c) == IsDone(fr, provN[c])

\* lines 561-631: one notification is taken from msgNotChannel and handled;
\* castedCid is cid.Undef when the key cannot be cast (lines 563-566 only log)
LisRecv ==
    /\ lisPc = "select"
    /\ msgNotChannel # <<>>
    /\ LET msgNot == Head(msgNotChannel)
           c == IF msgNot.KeyOk THEN msgNot.Key ELSE Nil
           fr == [firstCidFetchRes[c] EXCEPT !.PRPingResults =
                     @ \cup {[PeerID |-> msgNot.RemotePeer, Round |-> 0,
                              Active |-> ~msgNot.Error, HasRecords |-> FALSE]}]
       IN  /\ msgNotChannel' = Tail(msgNotChannel)
           /\ IF msgNot.Type # "ADD_PROVIDER"
              THEN UNCHANGED <<lisPc, lisCid, firstCidFetchRes, cidInfo>>
              ELSE IF SlotMissing(c)
              THEN /\ lisPc' = "panicked"
                   /\ lisCid' = c
                   /\ UNCHANGED <<firstCidFetchRes, cidInfo>>
              ELSE /\ firstCidFetchRes' = [firstCidFetchRes EXCEPT ![c] = fr]
                   /\ cidInfo' = [cidInfo EXCEPT ![c].PRHolders =
                                     @ \cup {msgNot.RemotePeer}]
                   /\ IF RoundZeroDone(fr, c)
                      THEN lisPc' = "sendDone" /\ lisCid' = c
                      ELSE UNCHANGED <<lisPc, lisCid>>
    /\ UNCHANGED <<genVars, runVars, workerVars, provVars, doneSent, finalized>>
    /\ UNCHANGED <<ctxDone, now, cidSet, dbFetch, dbCidInfo, pingVars, sinkVars, probeVars, srcVars, notified>>

\* lines 633-635: case <-publisher.ctx.Done()
LisCtxDone ==
    /\ lisPc = "select"
    /\ ctxDone
    /\ lisPc' = "exited"
    /\ UNCHANGED <<lisCid, genVars, runVars, workerVars, provVars,
                   firstCidFetchRes, doneSent, finalized, msgNotChannel>>
    /\ UNCHANGED <<sharedVars, pingVars, sinkVars, probeVars, srcVars, notified>>

\* lines 637-641: case <-publicationDoneC
LisPublicationDone ==
    /\ lisPc = "select"
    /\ publicationDoneC > 0
    /\ publicationDoneC' = publicationDoneC - 1
    /\ lisPc' = "exited"
    /\ UNCHANGED <<lisCid, generationDoneC, runPc, genVars, workerVars, provVars,
                   firstCidFetchRes, doneSent, finalized, msgNotChannel>>
    /\ UNCHANGED <<sharedVars, pingVars, sinkVars, probeVars, srcVars, notified>>

\* ------------------------------------------------------------ publisher pipeline
PubStep(w) ==
    \/ PubCheck(w) \/ PubRecvCid(w) \/ PubAddCid(w) \/ PubStore(w)
    \/ PubProvideStart(w) \/ PubProvideEmit(w) \/ PubProvideReturn(w)
    \/ PubWaitDone(w) \/ PubFinalize(w)
    \/ PubCtxDone(w) \/ PubGenerationDone(w) \/ PubTick(w)

Next ==
    \/ Cancel
    \/ GenCid \/ GenDone
    \/ RunGenerationDone \/ RunPublicationDone \/ RunClose
    \/ \E w \in Publishers : PubStep(w)
    \/ LisRecv \/ LisCtxDone \/ LisPublicationDone

Spec == Init /\ [][Next]_vars

\* ------------------------------------------------------------ other notifications
\* message types of the DHT protocol the notifier can report
MsgTypes == {"ADD_PROVIDER", "GET_PROVIDERS"}

\* a peer that is none of the peers a provide call of this run contacts
ForeignPeer == K + 1

\* the MsgNotifier hands the listener a notification that belongs to no provide
\* call under way: any message type, a key that may not decode, any known or
\* unknown CID
NotifyAny ==
    /\ notified < MaxNotified
    /\ notified' = notified + 1
    /\ \E t \in MsgTypes, key \in PubCids, ok \in BOOLEAN :
          msgNotChannel' = Append(msgNotChannel,
              [Type |-> t, Key |-> (IF ok THEN key ELSE Nil), KeyOk |-> ok,
               RemotePeer |-> ForeignPeer, Error |-> FALSE])
    /\ UNCHANGED <<genVars, runVars, workerVars, provVars, lisVars,
                   firstCidFetchRes, doneSent, finalized>>
    /\ UNCHANGED <<sharedVars, pingVars, sinkVars, probeVars, srcVars>>

NextListener == Next \/ NotifyAny

SpecListener == Init /\ [][NextListener]_vars

\* every goroutine that can take a step is eventually scheduled, and a worker that
\* keeps coming back to its select with the root context cancelled eventually takes
\* that case (select chooses at random among the ready cases); the root context
\* need never be cancelled
FairSpec ==
    /\ Spec
    /\ WF_vars(GenCid \/ GenDone)
    /\ WF_vars(RunGenerationDone \/ RunPublicationDone \/ RunClose)
    /\ \A w \in Publishers : WF_vars(PubStep(w)) /\ SF_vars(PubCtxDone(w))
    /\ WF_vars(LisRecv \/ LisCtxDone \/ LisPublicationDone)


\* ====================================================================== pinger
\* state in which the hand-off to the pinger starts: round 0 of every CidInfo
\* has been finalized by the publisher (published at time 0, every peer accepted
\* the record) and the publisher pipeline has shut down
InitPinger ==
    /\ InitCommon
    /\ NoProbe
    /\ NoSource
    /\ rounds \in 1..MaxRounds
    /\ cidSet = Cids
    /\ cidInfo = [c \in Cids |->
                     [PRHolders |-> Peers, PingCounter |-> 0, NextPing |-> ReqInterval,
                      PRFetchResults |-> <<0>>, PublicationTime |-> TRUE]]
    /\ dbFetch = [c \in Cids |-> SetToBag({0})]
    /\ dbCidInfo = [c \in Cids |-> 1]
    /\ runPc = "closed"
    /\ pubPc = [w \in Publishers |-> "exited"]
    /\ lisPc = "exited"
    /\ firstCidFetchRes = [c \in Cids |->
                              [stored |-> TRUE,
                               PRPingResults |-> {[PeerID |-> p, Round |-> 0, Active |-> TRUE,
                                                   HasRecords |-> FALSE] : p \in Peers}]]
    /\ provReturned = [c \in Cids |-> TRUE]
    /\ doneSent = [c \in Cids |-> TRUE]
    /\ finalized = [c \in Cids |-> TRUE]
    /\ wkPc = [k \in Pingers |-> "check"]
    /\ pingRunPc = "waitOrch"

\* ------------------------------------------------------------ cidQueue
\* the slice q.cidArray[:len]
QueueSlice == SubSeq(cidArray, 1, cidLen)

\* capacity the Go runtime gives a full slice that is appended to
GrowCap(cap) == IF cap = 0 THEN 1 ELSE 2 * cap

\* backing array the orchestrator's range loop reads
RangeView == IF rangeShared THEN cidArray ELSE rangeArr

\* cidQueue.addCid, lines 360-366: map insert and append (in place while len < cap)
addCid(c) ==
    /\ cidMap' = cidMap \cup {c}
    /\ cidLen' = cidLen + 1
    /\ IF cidLen < Len(cidArray)
       THEN /\ cidArray' = [cidArray EXCEPT ![cidLen + 1] = c]
            /\ UNCHANGED <<rangeShared, rangeArr>>
       ELSE /\ cidArray' = [i \in 1..GrowCap(Len(cidArray)) |->
                               IF i <= cidLen THEN cidArray[i]
                               ELSE IF i = cidLen + 1 THEN c ELSE Nil]
            /\ rangeArr' = RangeView
            /\ rangeShared' = FALSE

\* index of the first entry of the slice with the given key, 0 if none (lines 375-381)
FindItem(c) ==
    IF \E i \in 1..cidLen : cidArray[i] = c
    THEN CHOOSE i \in 1..cidLen : cidArray[i] = c /\ \A j \in 1..(i - 1) : cidArray[j] # c
    ELSE 0

\* cidQueue.removeCid, lines 368-386
removeCid(c) ==
    /\ cidMap' = cidMap \ {c}
    /\ IF cidLen = 1
       THEN /\ cidArray' = <<>>
            /\ cidLen' = 0
            /\ rangeArr' = RangeView
            /\ rangeShared' = FALSE
       ELSE LET item == FindItem(c)
            IN  IF item > 0
                THEN /\ cidArray' = [i \in 1..Len(cidArray) |->
                                        IF i >= item /\ i < cidLen THEN cidArray[i + 1]
                                        ELSE cidArray[i]]
                     /\ cidLen' = cidLen - 1
                     /\ UNCHANGED <<rangeShared, rangeArr>>
                ELSE UNCHANGED <<cidArray, cidLen, rangeShared, rangeArr>>

\* the comparison with its operands exchanged
LessReversed(arr, i, j) == cidInfo[arr[j]].NextPing < cidInfo[arr[i]].NextPing

\* cidQueue.Less, lines 409-414
Less(arr, i, j) == cidInfo[arr[i]].NextPing < cidInfo[arr[j]].NextPing

\* cidQueue.Swap, lines 401-406
Swap(arr, i, j) == [arr EXCEPT ![i] = arr[j], ![j] = arr[i]]

\* sort.Sort on fewer than 12 elements: insertion sort through Less and Swap;
\* SortInner sinks the element at j towards lo, SortOuter inserts elements i..hi
RECURSIVE SortInner(_, _, _)
SortInner(arr, j, lo) ==
    IF j > lo /\ Less(arr, j, j - 1)
    THEN SortInner(Swap(arr, j, j - 1), j - 1, lo)
    ELSE arr

RECURSIVE SortOuter(_, _, _)
SortOuter(arr, i, hi) ==
    IF i > hi THEN arr ELSE SortOuter(SortInner(arr, i, 1), i + 1, hi)

\* cidQueue.sortCidList, lines 396-398
sortCidList(arr, n) == SortOuter(arr, 2, n)


\* ------------------------------------------------------------ clock
\* what no step of the pinger changes
pingFrame == <<ctxDone, cidSet, dbCidInfo, pubVars, rounds, sinkVars, probeVars, srcVars, notified>>

\* minIterTime elapses; the ticker created at line 89 buffers at most one tick
\* (the ticker keeps firing after the modelled clock has reached MaxTime)
Tick ==
    /\ now' = IF now < MaxTime THEN now + 1 ELSE now
    /\ tickPending' = (tickPending \/ orchPc \notin {"waitInit", "exited"})
    /\ UNCHANGED <<cidInfo, dbFetch, pingFrame, init, callPc, queueVars, orchVars,
                   pingTaskC, wkVars, pingOrcDoneFlag, pingRunPc, enqCount>>

\* ------------------------------------------------------------ CidPinger.AddCidInfo
\* line 260: a caller hands over a finalized CidInfo and reads p.init
AddCidInfoCheckInit(c) ==
    /\ callPc[c] = "idle"
    /\ finalized[c]
    /\ callPc' = [callPc EXCEPT ![c] = IF init THEN "addCid" ELSE "setInit"]
    /\ UNCHANGED <<now, cidInfo, dbFetch, pingFrame, init, queueVars, orchVars,
                   tickPending, pingTaskC, wkVars, pingOrcDoneFlag, pingRunPc, enqCount>>

\* line 261: p.init = true
AddCidInfoSetInit(c) ==
    /\ callPc[c] = "setInit"
    /\ init' = TRUE
    /\ callPc' = [callPc EXCEPT ![c] = "sendInit"]
    /\ UNCHANGED <<now, cidInfo, dbFetch, pingFrame, queueVars, orchVars,
                   tickPending, pingTaskC, wkVars, pingOrcDoneFlag, pingRunPc, enqCount>>

\* line 262 with lines 86-89: p.initC <- struct{}{} meets the orchestrator's <-p.initC
AddCidInfoSendInit(c) ==
    /\ callPc[c] = "sendInit"
    /\ orchPc = "waitInit"
    /\ orchPc' = "select"
    /\ callPc' = [callPc EXCEPT ![c] = "addCid"]
    /\ UNCHANGED <<now, cidInfo, dbFetch, pingFrame, init, queueVars, rangeLen, rangeIdx,
                   orchCid, orchExit, tickPending, pingTaskC, wkVars, pingOrcDoneFlag,
                   pingRunPc, enqCount>>

\* line 264: p.cidQ.addCid(c)
AddCidInfoAddCid(c) ==
    /\ callPc[c] = "addCid"
    /\ addCid(c)
    /\ callPc' = [callPc EXCEPT ![c] = "done"]
    /\ UNCHANGED <<now, cidInfo, dbFetch, pingFrame, init, orchVars,
                   tickPending, pingTaskC, wkVars, pingOrcDoneFlag, pingRunPc, enqCount>>

\* ------------------------------------------------------------ CidPinger.Run, orchestrator
\* lines 92-99: select on ctx.Done() with default; the default branch enters the
\* range loop, which fixes the slice (array and length) it iterates
OrchSelect ==
    /\ orchPc = "select"
    /\ IF ctxDone
       THEN /\ orchPc' = "exited" /\ orchExit' = "ctx"
            /\ UNCHANGED <<rangeShared, rangeArr, rangeLen, rangeIdx>>
       ELSE /\ orchPc' = "iter"
            /\ rangeShared' = TRUE /\ rangeArr' = <<>>
            /\ rangeLen' = cidLen /\ rangeIdx' = 1
            /\ UNCHANGED orchExit
    /\ UNCHANGED <<now, cidInfo, dbFetch, pingFrame, init, callPc, cidMap, cidArray, cidLen,
                   orchCid, tickPending, pingTaskC, wkVars, pingOrcDoneFlag, pingRunPc,
                   enqCount>>

\* lines 99-110: next element of the range loop, ctx check, due check
OrchIter ==
    /\ orchPc = "iter"
    /\ IF rangeIdx > rangeLen
       THEN /\ orchPc' = "lenCheck"
            /\ rangeShared' = FALSE /\ rangeArr' = <<>> /\ rangeLen' = 0 /\ rangeIdx' = 0
            /\ UNCHANGED <<orchCid, orchExit>>
       ELSE IF ctxDone
       THEN /\ orchPc' = "exited" /\ orchExit' = "ctx"
            /\ rangeShared' = FALSE /\ rangeArr' = <<>> /\ rangeLen' = 0 /\ rangeIdx' = 0
            /\ UNCHANGED orchCid
       ELSE IF now < cidInfo[RangeView[rangeIdx]].NextPing
       THEN /\ orchPc' = "lenCheck"
            /\ rangeShared' = FALSE /\ rangeArr' = <<>> /\ rangeLen' = 0 /\ rangeIdx' = 0
            /\ UNCHANGED <<orchCid, orchExit>>
       ELSE /\ orchPc' = "incr"
            /\ orchCid' = RangeView[rangeIdx]
            /\ UNCHANGED <<rangeShared, rangeArr, rangeLen, rangeIdx, orchExit>>
    /\ UNCHANGED <<now, cidInfo, dbFetch, pingFrame, init, callPc, cidMap, cidArray, cidLen,
                   tickPending, pingTaskC, wkVars, pingOrcDoneFlag, pingRunPc, enqCount>>

\* line 113: c.IncreasePingCounter()
OrchIncr ==
    /\ orchPc = "incr"
    /\ cidInfo' = [cidInfo EXCEPT ![orchCid] = IncreasePingCounter(@)]
    /\ orchPc' = "send"
    /\ UNCHANGED <<now, dbFetch, pingFrame, init, callPc, queueVars, rangeLen, rangeIdx,
                   orchCid, orchExit, tickPending, pingTaskC, wkVars, pingOrcDoneFlag,
                   pingRunPc, enqCount>>

\* line 116: p.pingTaskC <- c (blocks while the channel is full); enq records the
\* counter value of this task
OrchSend ==
    /\ orchPc = "send"
    /\ Len(pingTaskC) < PingWorkers
    /\ pingTaskC' = Append(pingTaskC, [cid |-> orchCid, enq |-> cidInfo[orchCid].PingCounter])
    /\ enqCount' = [enqCount EXCEPT ![orchCid] = @ + 1]
    /\ orchPc' = "checkRounds"
    /\ UNCHANGED <<now, cidInfo, dbFetch, pingFrame, init, callPc, queueVars, rangeLen,
                   rangeIdx, orchCid, orchExit, tickPending, wkVars, pingOrcDoneFlag,
                   pingRunPc>>

\* lines 120-126: remove the CID once its counter reached rounds, next element
OrchCheckRounds ==
    /\ orchPc = "checkRounds"
    /\ IF cidInfo[orchCid].PingCounter >= rounds
       THEN removeCid(orchCid)
       ELSE UNCHANGED queueVars
    /\ orchPc' = "iter"
    /\ rangeIdx' = rangeIdx + 1
    /\ orchCid' = Nil
    /\ UNCHANGED <<now, cidInfo, dbFetch, pingFrame, init, callPc, rangeLen, orchExit,
                   tickPending, pingTaskC, wkVars, pingOrcDoneFlag, pingRunPc, enqCount>>

\* lines 129-131: the study is over when the queue is empty after a pass
OrchLenCheck ==
    /\ orchPc = "lenCheck"
    /\ IF cidLen = 0
       THEN orchPc' = "exited" /\ orchExit' = "empty"
       ELSE orchPc' = "sort" /\ UNCHANGED orchExit
    /\ UNCHANGED <<now, cidInfo, dbFetch, pingFrame, init, callPc, queueVars, rangeLen,
                   rangeIdx, orchCid, tickPending, pingTaskC, wkVars, pingOrcDoneFlag,
                   pingRunPc, enqCount>>

\* line 134: p.cidQ.sortCidList()
OrchSort ==
    /\ orchPc = "sort"
    /\ cidArray' = sortCidList(cidArray, cidLen)
    /\ orchPc' = "waitTick"
    /\ UNCHANGED <<now, cidInfo, dbFetch, pingFrame, init, callPc, cidMap, cidLen,
                   rangeShared, rangeArr, rangeLen, rangeIdx, orchCid, orchExit,
                   tickPending, pingTaskC, wkVars, pingOrcDoneFlag, pingRunPc, enqCount>>

\* line 137: <-minTimeT.C
OrchWaitTick ==
    /\ orchPc = "waitTick"
    /\ tickPending
    /\ tickPending' = FALSE
    /\ orchPc' = "select"
    /\ UNCHANGED <<now, cidInfo, dbFetch, pingFrame, init, callPc, queueVars, rangeLen,
                   rangeIdx, orchCid, orchExit, pingTaskC, wkVars, pingOrcDoneFlag,
                   pingRunPc, enqCount>>

\* ------------------------------------------------------------ CidPinger.Run, workers
\* lines 153-156: leave when the orchestrator is done and no task is buffered
WkCheck(k) ==
    /\ wkPc[k] = "check"
    /\ wkPc' = [wkPc EXCEPT ![k] =
                   IF pingOrcDoneFlag /\ Len(pingTaskC) = 0 THEN "exited" ELSE "select"]
    /\ UNCHANGED <<now, cidInfo, dbFetch, pingFrame, init, callPc, queueVars, orchVars,
                   tickPending, pingTaskC, wkCid, wkRound, wkEnq, pingOrcDoneFlag,
                   pingRunPc, enqCount>>

\* lines 159-166: case c, ok := <-p.pingTaskC (the channel is closed only after
\* every worker has left, so ok is always true)
WkRecv(k) ==
    /\ wkPc[k] = "select"
    /\ pingTaskC # <<>>
    /\ wkCid' = [wkCid EXCEPT ![k] = Head(pingTaskC).cid]
    /\ wkEnq' = [wkEnq EXCEPT ![k] = Head(pingTaskC).enq]
    /\ pingTaskC' = Tail(pingTaskC)
    /\ wkPc' = [wkPc EXCEPT ![k] = "readCounter"]
    /\ UNCHANGED <<now, cidInfo, dbFetch, pingFrame, init, callPc, queueVars, orchVars,
                   tickPending, wkRound, pingOrcDoneFlag, pingRunPc, enqCount>>

\* lines 167-172: pingCounter := c.GetPingCounter(), NewCidFetchResults(c.CID, pingCounter)
WkReadCounter(k) ==
    /\ wkPc[k] = "readCounter"
    /\ wkRound' = [wkRound EXCEPT ![k] = cidInfo[wkCid[k]].PingCounter]
    /\ wkPc' = [wkPc EXCEPT ![k] = "fetch"]
    /\ UNCHANGED <<now, cidInfo, dbFetch, pingFrame, init, callPc, queueVars, orchVars,
                   tickPending, pingTaskC, wkCid, wkEnq, pingOrcDoneFlag, pingRunPc,
                   enqCount>>

\* lines 174-236: the lookups and the holder probes are joined, FinishTime is set
\* and the round's CidFetchResults goes to DBCli.AddFetchResult
WkSubmit(k) ==
    /\ wkPc[k] = "fetch"
    /\ dbFetch' = [dbFetch EXCEPT ![wkCid[k]] = @ (+) SetToBag({wkRound[k]})]
    /\ wkPc' = [wkPc EXCEPT ![k] = "check"]
    /\ wkCid' = [wkCid EXCEPT ![k] = Nil]
    /\ wkRound' = [wkRound EXCEPT ![k] = 0]
    /\ wkEnq' = [wkEnq EXCEPT ![k] = 0]
    /\ UNCHANGED <<now, cidInfo, pingFrame, init, callPc, queueVars, orchVars,
                   tickPending, pingTaskC, pingOrcDoneFlag, pingRunPc, enqCount>>

\* lines 238-240: case <-p.ctx.Done()
WkCtxDone(k) ==
    /\ wkPc[k] = "select"
    /\ ctxDone
    /\ wkPc' = [wkPc EXCEPT ![k] = "exited"]
    /\ UNCHANGED <<now, cidInfo, dbFetch, pingFrame, init, callPc, queueVars, orchVars,
                   tickPending, pingTaskC, wkCid, wkRound, wkEnq, pingOrcDoneFlag,
                   pingRunPc, enqCount>>

\* ------------------------------------------------------------ CidPinger.Run, join
\* lines 247-250: pingOrchWG.Wait(), pingOrcDoneFlag = true
PingRunSetFlag ==
    /\ pingRunPc = "waitOrch"
    /\ orchPc = "exited"
    /\ pingOrcDoneFlag' = TRUE
    /\ pingRunPc' = "waitWorkers"
    /\ UNCHANGED <<now, cidInfo, dbFetch, pingFrame, init, callPc, queueVars, orchVars,
                   tickPending, pingTaskC, wkVars, enqCount>>

\* lines 252-255: pingerWG.Wait(), close(p.pingTaskC)
PingRunClose ==
    /\ pingRunPc = "waitWorkers"
    /\ \A k \in Pingers : wkPc[k] = "exited"
    /\ pingRunPc' = "returned"
    /\ UNCHANGED <<now, cidInfo, dbFetch, pingFrame, init, callPc, queueVars, orchVars,
                   tickPending, pingTaskC, wkVars, pingOrcDoneFlag, enqCount>>

\* ------------------------------------------------------------ pinger specification
AddCidInfoStep(c) ==
    \/ AddCidInfoCheckInit(c) \/ AddCidInfoSetInit(c)
    \/ AddCidInfoSendInit(c) \/ AddCidInfoAddCid(c)

OrchStep ==
    \/ OrchSelect \/ OrchIter \/ OrchIncr \/ OrchSend
    \/ OrchCheckRounds \/ OrchLenCheck \/ OrchSort \/ OrchWaitTick

WkStep(k) == WkCheck(k) \/ WkRecv(k) \/ WkReadCounter(k) \/ WkSubmit(k) \/ WkCtxDone(k)

NextPinger ==
    \/ Cancel
    \/ Tick
    \/ \E c \in Cids : AddCidInfoStep(c)
    \/ OrchStep
    \/ \E k \in Pingers : WkStep(k)
    \/ PingRunSetFlag \/ PingRunClose

SpecPinger == InitPinger /\ [][NextPinger]_vars

\* every goroutine that can take a step is eventually scheduled and time passes;
\* nobody is obliged to call AddCidInfo or to cancel the root context
FairSpecPinger ==
    /\ SpecPinger
    /\ WF_vars(Tick)
    /\ \A c \in Cids :
          WF_vars(AddCidInfoSetInit(c) \/ AddCidInfoSendInit(c) \/ AddCidInfoAddCid(c))
    /\ WF_vars(OrchStep)
    /\ \A k \in Pingers : WF_vars(WkStep(k))
    /\ WF_vars(PingRunSetFlag \/ PingRunClose)


\* ====================================================================== DBClient
\* what no step of the DBClient changes
sinkFrame == <<now, cidSet, cidInfo, dbFetch, dbCidInfo, pubVars, pingVars, probeVars, srcVars, notified>>

\* DBClient.AddCidInfo / AddPeerInfo / AddFetchResult / AddPingResults, lines 418-432:
\* a producer sends the next object on the buffered channel of its kind (producers
\* have stopped by the time Close is called)
SinkAdd(k) ==
    /\ closePc = "idle"
    /\ sinkSent[k] < MaxObjs
    /\ Len(sinkC[k]) < SinkBuf
    /\ sinkSent' = [sinkSent EXCEPT ![k] = @ + 1]
    /\ sinkC' = [sinkC EXCEPT ![k] = Append(@, sinkSent[k] + 1)]
    /\ UNCHANGED <<ctxDone, sinkFrame, sinkIns, persPc, persItem, recvClosed, chansClosed,
                   closePc>>

\* runPersisters, the receive case of each select (lines 333, 354, 375, 395) while
\* the channel holds an object
PersRecv(k) ==
    /\ persPc[k] = "select"
    /\ sinkC[k] # <<>>
    /\ persItem' = [persItem EXCEPT ![k] = Head(sinkC[k])]
    /\ sinkC' = [sinkC EXCEPT ![k] = Tail(@)]
    /\ persPc' = [persPc EXCEPT ![k] = "insert"]
    /\ UNCHANGED <<ctxDone, sinkFrame, sinkSent, sinkIns, recvClosed, chansClosed, closePc>>

\* runPersisters, lines 334-338, 355-359, 376-379, 396-399: the INSERT of the object
PersInsert(k) ==
    /\ persPc[k] = "insert"
    /\ sinkIns' = [sinkIns EXCEPT ![k][persItem[k]] = @ + 1]
    /\ persItem' = [persItem EXCEPT ![k] = Nil]
    /\ persPc' = [persPc EXCEPT ![k] = "select"]
    /\ UNCHANGED <<ctxDone, sinkFrame, sinkC, sinkSent, recvClosed, chansClosed, closePc>>

\* the same receive case once the channel is closed and drained: it yields the zero
\* value at once.  Lines 334 and 355 dereference it (cidInfo.CID, p.Peer.ID) and
\* panic; addFetchResults(nil) and addPingResultsSet(nil) either panic or fail and
\* the loop goes round again
PersRecvClosed(k) ==
    /\ persPc[k] = "select"
    /\ sinkC[k] = <<>>
    /\ chansClosed
    /\ recvClosed' = [recvClosed EXCEPT ![k] = TRUE]
    /\ \E outcome \in (IF k \in {"cidInfo", "peerInfo"}
                       THEN {"panicked"} ELSE {"panicked", "select"}) :
          persPc' = [persPc EXCEPT ![k] = outcome]
    /\ UNCHANGED <<ctxDone, sinkFrame, sinkC, sinkSent, sinkIns, persItem, chansClosed,
                   closePc>>

\* the case <-db.doneC of one persister (lines 339, 360, 380, 401) meets the send
\* of Close on the unbuffered doneC (line 441)
PersDone(k) ==
    /\ persPc[k] = "select"
    /\ closePc = "sendDone"
    /\ persPc' = [persPc EXCEPT ![k] = "exitedDone"]
    /\ closePc' = "closeChans"
    /\ UNCHANGED <<ctxDone, sinkFrame, sinkC, sinkSent, sinkIns, persItem, recvClosed,
                   chansClosed>>

\* the case <-db.ctx.Done() (lines 343, 364, 384, 405)
PersCtxDone(k) ==
    /\ persPc[k] = "select"
    /\ ctxDone
    /\ persPc' = [persPc EXCEPT ![k] = "exitedCtx"]
    /\ UNCHANGED <<ctxDone, sinkFrame, sinkC, sinkSent, sinkIns, persItem, recvClosed,
                   chansClosed, closePc>>

\* DBClient.Close is called (lines 434-441): it is about to send on doneC
CloseCall ==
    /\ closePc = "idle"
    /\ closePc' = "sendDone"
    /\ UNCHANGED <<ctxDone, sinkFrame, sinkC, sinkSent, sinkIns, persPc, persItem,
                   recvClosed, chansClosed>>

\* lines 442-448: the four channels are closed, sqlCli.Close(), return
CloseChannels ==
    /\ closePc = "closeChans"
    /\ chansClosed' = TRUE
    /\ closePc' = "returned"
    /\ UNCHANGED <<ctxDone, sinkFrame, sinkC, sinkSent, sinkIns, persPc, persItem,
                   recvClosed>>

PersStep(k) ==
    \/ PersRecv(k) \/ PersInsert(k) \/ PersRecvClosed(k) \/ PersDone(k) \/ PersCtxDone(k)

NextDB ==
    \/ Cancel
    \/ \E k \in Kinds : SinkAdd(k)
    \/ \E k \in Kinds : PersStep(k)
    \/ CloseCall \/ CloseChannels

SpecDB == Init /\ [][NextDB]_vars

\* every persister that can take a step is eventually scheduled and Close, once
\* called, goes on whenever it can; nobody is obliged to produce, to call Close or
\* to cancel the root context
FairSpecDB ==
    /\ SpecDB
    /\ \A k \in Kinds : WF_vars(PersStep(k))
    /\ WF_vars(CloseChannels)


\* ====================================================================== PingPRHolder
\* tags of the p2p package
NoConnError == "none"
DialErrorConnectionRefused == "connection_refused"
DialErrorStreamReset == "stream_reset"
DialErrorTimeout == "i/o_timeout"
DialErrorUnknown == "unknown"

\* p2p.ParseConError: the tag of a connection error
ParseConError(err) ==
    CASE err = "connection refused" -> DialErrorConnectionRefused
      [] err = "stream reset" -> DialErrorStreamReset
      [] err = "i/o timeout" -> DialErrorTimeout
      [] OTHER -> DialErrorUnknown

\* a probe of one holder is about to be made: the outcome of every dial the host
\* could be asked for and the provider list the holder would return are fixed
InitProbe ==
    /\ InitCommon
    /\ PubStart
    /\ NoSource
    /\ dials \in [1..maxDialAttempts -> DialRaw]
    /\ provs \in SUBSET ProvPeers

\* what no step of the probe changes
probeFrame == <<sharedVars, pubVars, pingVars, sinkVars, srcVars, notified, dials, provs>>

\* lines 268-280: entry of PingPRHolder
ProbeStart ==
    /\ probePc = "idle"
    /\ probePc' = "loop"
    /\ UNCHANGED <<probeFrame, att, active, hasRecords, connError, connLog, connOpen,
                   probeResult>>

\* line 283: att < maxDialAttempts
ProbeLoop ==
    /\ probePc = "loop"
    /\ probePc' = IF att < maxDialAttempts THEN "connect" ELSE "return"
    /\ UNCHANGED <<probeFrame, att, active, hasRecords, connError, connLog, connOpen,
                   probeResult>>

\* line 285: err := p.host.Connect(pingCtx, pAddr)
ProbeConnect ==
    /\ probePc = "connect"
    /\ connLog' = Append(connLog, dials[att + 1])
    /\ connOpen' = (dials[att + 1] = "ok")
    /\ probePc' = IF dials[att + 1] = "ok" THEN "connected" ELSE "failed"
    /\ UNCHANGED <<probeFrame, att, active, hasRecords, connError, probeResult>>

\* the error is tagged and the next attempt is made whatever the tag
ProbeFailedRetriesAll ==
    /\ probePc = "failed"
    /\ connError' = ParseConError(dials[att + 1])
    /\ att' = att + 1
    /\ probePc' = "loop"
    /\ UNCHANGED <<probeFrame, active, hasRecords, connLog, connOpen, probeResult>>

\* lines 286-292 and the att++ of line 283: the error is tagged; any tag but
\* connection refused / stream reset leaves the loop
ProbeFailed ==
    /\ probePc = "failed"
    /\ connError' = ParseConError(dials[att + 1])
    /\ IF /\ connError' # DialErrorConnectionRefused
          /\ connError' # DialErrorStreamReset
       THEN probePc' = "return" /\ UNCHANGED att
       ELSE probePc' = "loop" /\ att' = att + 1
    /\ UNCHANGED <<probeFrame, active, hasRecords, connLog, connOpen, probeResult>>

\* the dial succeeded but the tag of the last failed attempt is kept
ProbeConnectedKeepsError ==
    /\ probePc = "connected"
    /\ active' = TRUE
    /\ hasRecords' = (hasRecords \/ Creator \in provs)
    /\ probePc' = "closePeer"
    /\ UNCHANGED <<probeFrame, att, connError, connLog, connOpen, probeResult>>

\* lines 293-311: active, NoConnError, GetProvidersFromPeer and the scan of the
\* provider list for the CID's Creator
ProbeConnected ==
    /\ probePc = "connected"
    /\ active' = TRUE
    /\ connError' = NoConnError
    /\ hasRecords' = (hasRecords \/ Creator \in provs)
    /\ probePc' = "closePeer"
    /\ UNCHANGED <<probeFrame, att, connLog, connOpen, probeResult>>

\* lines 314-318: ClosePeer and break
ProbeClosePeer ==
    /\ probePc = "closePeer"
    /\ connOpen' = FALSE
    /\ probePc' = "return"
    /\ UNCHANGED <<probeFrame, att, active, hasRecords, connError, connLog, probeResult>>

\* lines 322-332: models.NewPRPingResults(..., active, hasRecords, connError)
ProbeReturn ==
    /\ probePc = "return"
    /\ probeResult' = [Active |-> active, HasRecords |-> hasRecords,
                       ConnError |-> connError]
    /\ probePc' = "done"
    /\ UNCHANGED <<probeFrame, att, active, hasRecords, connError, connLog, connOpen>>

NextProbe ==
    \/ ProbeStart \/ ProbeLoop \/ ProbeConnect \/ ProbeFailed
    \/ ProbeConnected \/ ProbeClosePeer \/ ProbeReturn

SpecProbe == InitProbe /\ [][NextProbe]_vars


\* ============================================================ JsonFileCIDSource
\* a provider record of a file: two well-formed ones, one whose CID (or peer ID,
\* or time) does not parse, and the record with every field empty
RecVals == {"cid1", "cid2", "malformed", "zero"}

\* EncapsulatedJSONProviderRecord{}
ZeroRecord == "zero"

RECURSIVE SeqsUpTo(_, _)
\* the sequences over S of length at most n
SeqsUpTo(S, n) ==
    IF n = 0 THEN {<<>>}
    ELSE LET shorter == SeqsUpTo(S, n - 1)
         IN  shorter \cup {Append(q, x) : q \in {r \in shorter : Len(r) = n - 1}, x \in S}

\* a JSON document holding a ProviderRecords object: the list under its records
\* key, or an object without that key
Documents ==
    {[hasKey |-> TRUE, recs |-> r] : r \in SeqsUpTo(RecVals, MaxRecs)}
        \cup {[hasKey |-> FALSE, recs |-> <<>>]}

\* encoding/json: decoding an object into a struct sets the fields whose key is
\* present and leaves every other field of the destination as it was
Unmarshal(doc, records) == IF doc.hasKey THEN doc.recs ELSE records

RECURSIVE DecodeAll(_, _, _)
\* lines 99-107: for decoder.More() { Decode(&records); append(filteredRecords, ...) }
\* with the one records variable declared before the loop (line 95)
DecodeAll(ds, records, filteredRecords) ==
    IF ds = <<>> THEN filteredRecords
    ELSE LET decoded == Unmarshal(Head(ds), records)
         IN  DecodeAll(Tail(ds), decoded, filteredRecords \o decoded)

\* lines 83-115: the records of the source built from the concatenated documents
OpenEncodedJSONFile(ds) == DecodeAll(ds, <<>>, <<>>)

\* lines 117-148: the records of the source built from a file of one document
OpenSimpleJSONFile(doc) == Unmarshal(doc, <<>>)

RECURSIVE OpenMultipleSimpleJSONFiles(_)
\* lines 27-54: one file per document, a fresh records variable per file (line 34)
OpenMultipleSimpleJSONFiles(ds) ==
    IF ds = <<>> THEN <<>>
    ELSE Unmarshal(Head(ds), <<>>) \o OpenMultipleSimpleJSONFiles(Tail(ds))

RECURSIVE OpenMultipleEncodedJSONFiles(_)
\* lines 56-80: one file per document, a fresh records variable per file (line 63)
OpenMultipleEncodedJSONFiles(ds) ==
    IF ds = <<>> THEN <<>>
    ELSE DecodeAll(<<Head(ds)>>, <<>>, <<>>) \o OpenMultipleEncodedJSONFiles(Tail(ds))

\* the error GetNewCid returns at line 231
EndOfRecords == "end of provider records"

RECURSIVE GetNewCid(_, _)
\* lines 154-232: the iterator advances (it stops counting one past the end, where
\* every further call finds no record too); no record or the zero record ends the
\* loop with the error, a record that does not parse is skipped, a well-formed one
\* is returned
GetNewCid(records, i) ==
    IF i + 1 > Len(records)
    THEN [iter |-> Len(records) + 1, res |-> EndOfRecords]
    ELSE IF records[i + 1] = ZeroRecord
    THEN [iter |-> i + 1, res |-> EndOfRecords]
    ELSE IF records[i + 1] = "malformed"
    THEN GetNewCid(records, i + 1)
    ELSE [iter |-> i + 1, res |-> records[i + 1]]

\* the input files: up to MaxDocs documents
InitSource ==
    /\ InitCommon
    /\ PubStart
    /\ NoProbe
    /\ docs \in SeqsUpTo(Documents, MaxDocs)
    /\ SrcIdle

\* what no step of the CID sources changes
srcFrame == <<sharedVars, pubVars, pingVars, sinkVars, probeVars, notified, docs>>

\* OpenEncodedJSONFile on the file that concatenates the documents
OpenEncoded ==
    /\ jsonPc = "idle"
    /\ encOut' = OpenEncodedJSONFile(docs)
    /\ jsonPc' = "encoded"
    /\ UNCHANGED <<srcFrame, simpleOut, rdPc, rdIter, rdRes, rdOut,
                   gcPc, gcLoop, gcIter, gcRes, gcOut, gcCalls>>

\* OpenSimpleJSONFile on each document, the lists concatenated
OpenSimple ==
    /\ jsonPc = "encoded"
    /\ simpleOut' = OpenMultipleSimpleJSONFiles(docs)
    /\ jsonPc' = "done"
    /\ UNCHANGED <<srcFrame, encOut, rdPc, rdIter, rdRes, rdOut,
                   gcPc, gcLoop, gcIter, gcRes, gcOut, gcCalls>>

\* ---------------------------------------------------------------------- readCIDs
\* cid-tracker.go line 120: source.GetNewCid()
RdCall ==
    /\ jsonPc = "done"
    /\ rdPc = "call"
    /\ LET r == GetNewCid(encOut, rdIter)
       IN  rdIter' = r.iter /\ rdRes' = r.res
    /\ rdPc' = "check"
    /\ UNCHANGED <<srcFrame, jsonPc, encOut, simpleOut, rdOut,
                   gcPc, gcLoop, gcIter, gcRes, gcOut, gcCalls>>

\* cid-tracker.go lines 121-128: an error continues the loop, the Undef instance
\* leaves it (defer wg.Done), anything else is sent on the channel
RdCheck ==
    /\ rdPc = "check"
    /\ IF rdRes = EndOfRecords
       THEN rdPc' = "call" /\ UNCHANGED rdOut
       ELSE IF rdRes = Undef
       THEN rdPc' = "done" /\ UNCHANGED rdOut
       ELSE rdPc' = "call" /\ rdOut' = Append(rdOut, rdRes)
    /\ UNCHANGED <<srcFrame, jsonPc, encOut, simpleOut, rdIter, rdRes,
                   gcPc, gcLoop, gcIter, gcRes, gcOut, gcCalls>>

\* ------------------------------------------------------------------ generateCids
\* cid-tracker.go lines 107-108: i < cidNumber, source.GetNewCid()
GcCall ==
    /\ jsonPc = "done"
    /\ gcPc = "loop"
    /\ gcLoop < CidNumber
    /\ LET r == GetNewCid(encOut, gcIter)
       IN  gcIter' = r.iter /\ gcRes' = r.res
    /\ gcCalls' = gcCalls + 1
    /\ gcPc' = "check"
    /\ UNCHANGED <<srcFrame, jsonPc, encOut, simpleOut, rdPc, rdIter, rdRes, rdOut,
                   gcLoop, gcOut>>

\* cid-tracker.go lines 109-113: an error continues with i++, a CID is sent
GcCheck ==
    /\ gcPc = "check"
    /\ gcOut' = IF gcRes = EndOfRecords THEN gcOut ELSE Append(gcOut, gcRes)
    /\ gcLoop' = gcLoop + 1
    /\ gcPc' = "loop"
    /\ UNCHANGED <<srcFrame, jsonPc, encOut, simpleOut, rdPc, rdIter, rdRes, rdOut,
                   gcIter, gcRes, gcCalls>>

\* cid-tracker.go lines 105, 107: the loop ends, the deferred wg.Done() runs
GcDone ==
    /\ jsonPc = "done"
    /\ gcPc = "loop"
    /\ gcLoop = CidNumber
    /\ gcPc' = "done"
    /\ UNCHANGED <<srcFrame, jsonPc, encOut, simpleOut, rdPc, rdIter, rdRes, rdOut,
                   gcLoop, gcIter, gcRes, gcOut, gcCalls>>

NextSource ==
    \/ OpenEncoded \/ OpenSimple
    \/ RdCall \/ RdCheck
    \/ GcCall \/ GcCheck \/ GcDone

SpecSource == InitSource /\ [][NextSource]_vars

\* both goroutines are scheduled whenever they can take a step; the consumers of
\* their channels are always ready
FairSpecSource ==
    /\ SpecSource
    /\ WF_vars(OpenEncoded \/ OpenSimple)
    /\ WF_vars(RdCall \/ RdCheck)
    /\ WF_vars(GcCall \/ GcCheck \/ GcDone)


\* ====================================================================== claims
\* a publisher worker holds the CID between the provide call and the summary
InFlight(w, c) == pubCid[w] = c

\* C1: round 0 of a CID is finalized only after its ProvideCid call has returned
\* and after the listener's send on its DoneC has completed
C1_FinalizeAfterJoin ==
    \A c \in Cids :
        (finalized[c] \/ \E w \in Publishers : InFlight(w, c) /\ pubPc[w] = "finalize")
            => (provReturned[c] /\ doneSent[c])

\* a CID whose provide call emitted K events has been finalized
C1_Witness ==
    \E c \in Cids : finalized[c] /\ provN[c] = K /\ dbFetch[c] # EmptyBag

\* C2: every ADD_PROVIDER event the listener can take from the notifier channel
\* is for a CID that is in the cidSet and has its round-0 slot stored, so the
\* listener never reaches one of its panics
C2_ListenerFindsCid ==
    /\ lisPc # "panicked"
    /\ \A i \in 1..Len(msgNotChannel) :
          /\ msgNotChannel[i].Key \in cidSet
          /\ firstCidFetchRes[msgNotChannel[i].Key].stored

\* the listener has handled an event of a provide call that is still emitting
C2_Witness ==
    \E w \in Publishers :
        /\ pubPc[w] = "providing"
        /\ firstCidFetchRes[pubCid[w]].PRPingResults # {}
        /\ msgNotChannel # <<>>

\* the listener has handled every event the provide call of the CID emits
AllEventsHandled(c) ==
    /\ provEmitted[c] = provN[c]
    /\ Cardinality(firstCidFetchRes[c].PRPingResults) = provN[c]

\* C3: once the listener has handled the n events of a provide call (0 <= n <= K),
\* the worker's wait on DoneC ends (a cancelled root context is not held against
\* the claim)
C3_WaitOnDoneCEnds ==
    \A w \in Publishers :
        (pubPc[w] = "waitDone" /\ AllEventsHandled(pubCid[w]) /\ ~ctxDone)
            ~> (pubPc[w] # "waitDone" \/ ctxDone)

\* C4: a CidInfo whose round 0 completed is eventually in the pinger's queue
\* (unless the root context is cancelled)
C4_EventuallyQueued ==
    \A c \in Cids :
        (finalized[c] /\ ~ctxDone) ~> (ctxDone \/ (\E i \in 1..cidLen : cidArray[i] = c))

\* number of pinger tasks of a CID that are enqueued or in a worker's hands
Outstanding(c) ==
    Cardinality({i \in 1..Len(pingTaskC) : pingTaskC[i].cid = c})
    + Cardinality({k \in Pingers : wkCid[k] = c})

\* the CID is an entry of the queue's slice
Queued(c) == \E i \in 1..cidLen : cidArray[i] = c

\* Round values of the results of a CID that reached the sink
SinkRounds(c) == BagToSet(dbFetch[c])

\* C5: the orchestrator never enqueues the next round of a CID while an earlier
\* round of the same CID is still enqueued or executing
C5_RoundsSequential == \A c \in Cids : Outstanding(c) <= 1

\* C6: without cancellation a CID gets exactly `rounds` results, round 0 included:
\* the orchestrator enqueues at most rounds - 1 tasks for it (none with rounds = 1,
\* one with rounds = 2), and a CID that went through the queue has `rounds`
\* results when CidPinger.Run returns
C6_ExactlyRoundsResults ==
    ~ctxDone =>
        \A c \in Cids :
            /\ enqCount[c] <= rounds - 1
            /\ BagCardinality(dbFetch[c]) <= rounds
            /\ (pingRunPc = "returned" /\ callPc[c] = "done")
                  => BagCardinality(dbFetch[c]) = rounds

\* C7: the Round values of a CID in the sink are distinct and contiguous from 0,
\* and a worker stamps a task with the counter value the task was enqueued with
C7_RoundsDistinctContiguous ==
    /\ \A c \in Cids :
          /\ \A r \in SinkRounds(c) : CopiesIn(r, dbFetch[c]) = 1
          /\ SinkRounds(c) = 0..(BagCardinality(dbFetch[c]) - 1)
    /\ \A k \in Pingers : wkPc[k] = "fetch" => wkRound[k] = wkEnq[k]

\* C8: once a pinger round of a CID is in the sink, PingCounter = len(PRFetchResults) - 1
C8_CounterMatchesResults ==
    \A c \in Cids :
        BagCardinality(dbFetch[c]) > 1 =>
            cidInfo[c].PingCounter = Len(cidInfo[c].PRFetchResults) - 1

\* C9: a CidInfo that was added to the queue and has PingCounter < rounds is
\* still in the queue
C9_NoEarlyRemoval ==
    \A c \in Cids :
        (callPc[c] = "done" /\ cidInfo[c].PingCounter < rounds) => Queued(c)


\* C10: once the orchestrator has left because the queue was empty after a pass,
\* every worker leaves and CidPinger.Run returns, without any cancellation
C10_WorkersExit == (orchExit = "empty") ~> (pingRunPc = "returned")

\* C11: the orchestrator never finds the queue empty on its first pass and leaves
\* before a CID has been scheduled: when it leaves because the queue is empty,
\* a CidInfo has been inserted and a task of some CID has been enqueued
C11_FirstPassAfterInsert ==
    orchExit = "empty" =>
        /\ \E c \in Cids : callPc[c] = "done"
        /\ \E c \in Cids : enqCount[c] > 0

\* C12: once Close has delivered done and closed the channels (root context not
\* cancelled), every persister has left through its done case, and no persister
\* ever receives from its closed channel
C12_DoneReachesAll ==
    /\ (chansClosed /\ ~ctxDone) => \A k \in Kinds : persPc[k] = "exitedDone"
    /\ \A k \in Kinds : ~recvClosed[k]

\* C13: no object is inserted twice, and (root context not cancelled) a persister
\* that has left through its done case has attempted exactly one INSERT for every
\* object that was handed to its channel
C13_ExactlyOneInsert ==
    /\ \A k \in Kinds : \A o \in Objs : sinkIns[k][o] <= 1
    /\ \A k \in Kinds :
          (persPc[k] = "exitedDone" /\ ~ctxDone) =>
              \A o \in 1..sinkSent[k] : sinkIns[k][o] = 1

\* C14: once the generator has signalled completion, the CID channel is empty and
\* every CID has gone through round 0, every publisher worker leaves, the listener
\* gets publicationDone and CidPublisher.Run returns (without any cancellation)
C14_RunReturnsAfterGeneration ==
    (genDoneC /\ cidPubC = <<>> /\ (\A c \in PubCids : finalized[c]) /\ ~ctxDone)
        ~> (runPc = "closed" \/ ctxDone)

\* C15: after the root context is cancelled every publisher worker, one waiting on
\* DoneC included, and the listener eventually leave
C15_CancelStopsPublisher ==
    ctxDone ~> ((\A w \in Publishers : pubPc[w] = "exited") /\ lisPc = "exited")

\* C16: after the root context is cancelled the orchestrator and every pinger
\* worker eventually leave and CidPinger.Run returns
C16_CancelStopsPinger ==
    ctxDone ~> (orchPc = "exited" /\ (\A k \in Pingers : wkPc[k] = "exited")
                /\ pingRunPc = "returned")

\* C17: with the root context cancelled, a Close() that is under way returns
C17_CloseReturnsAfterCancel ==
    (ctxDone /\ closePc = "sendDone") ~> (closePc = "returned")

\* the raw outcome makes PingPRHolder dial again
Retried(raw) ==
    ParseConError(raw) \in {DialErrorConnectionRefused, DialErrorStreamReset}

\* C18: a probe calls Connect at most maxDialAttempts times, and every attempt but
\* the first follows an attempt that failed with connection refused or stream reset
\* (so none follows a success or another error)
C18_DialAttempts ==
    /\ Len(connLog) <= maxDialAttempts
    /\ \A i \in 1..(Len(connLog) - 1) : connLog[i] # "ok" /\ Retried(connLog[i])

\* a probe that dialled three times: refused or reset twice, then some outcome
C18_Witness ==
    /\ probePc = "done"
    /\ Len(connLog) = maxDialAttempts
    /\ connLog[1] = "connection refused"
    /\ connLog[2] = "stream reset"

Accepted(c) == {r.PeerID : r \in {x \in firstCidFetchRes[c].PRPingResults : x.Active}}

\* C20: after round 0 of a CID its PRHolders are exactly the peers whose
\* ADD_PROVIDER event carried no error, and every event, failed or not, has a
\* round-0 ping result without records
C20_HoldersAreAccepted ==
    \A c \in Cids :
        finalized[c] =>
            /\ cidInfo[c].PRHolders = Accepted(c)
            /\ Cardinality(firstCidFetchRes[c].PRPingResults) = provN[c]
            /\ \A r \in firstCidFetchRes[c].PRPingResults : r.Round = 0 /\ ~r.HasRecords

\* C25: an orchestrator pass enqueues every due entry exactly once, so that the
\* PingCounter of a CidInfo never exceeds rounds
C25_CounterWithinRounds == \A c \in Cids : cidInfo[c].PingCounter <= rounds

\* the first n entries of arr are in non-decreasing order of NextPing
SortedByNextPing(arr, n) ==
    \A i \in 1..(n - 1) : cidInfo[arr[i]].NextPing <= cidInfo[arr[i + 1]].NextPing

\* number of entries among the first n of arr that hold the CID
Count(arr, n, c) == Cardinality({i \in 1..n : arr[i] = c})

\* C26: sortCidList leaves the same entries in the queue, in non-decreasing order
\* of NextPing
C26_SortedPermutation ==
    [][OrchSort =>
          /\ cidLen' = cidLen
          /\ SortedByNextPing(cidArray', cidLen')
          /\ \A c \in Cids : Count(cidArray', cidLen', c) = Count(cidArray, cidLen, c)]_vars

\* the queue has just been sorted and holds entries with different NextPing, one of
\* them added while the orchestrator was running
C26_Witness ==
    /\ orchPc = "waitTick"
    /\ cidLen >= 2
    /\ cidInfo[cidArray[1]].NextPing < cidInfo[cidArray[cidLen]].NextPing
    /\ \E c \in Cids : Queued(c) /\ cidInfo[c].PingCounter = 0 /\ enqCount # [d \in Cids |-> 0]

\* C27: no addCid of another goroutine executes while the orchestrator is inside
\* its range loop over cidArray (iterating or removing) or about to sort
C27_QueueOrchestratorOnly ==
    [][(\E c \in Cids : AddCidInfoAddCid(c))
          => orchPc \notin {"iter", "incr", "send", "checkRounds", "sort"}]_vars

\* C28: cidMap and cidArray describe the same set: a key is in cidMap iff exactly
\* one entry of the slice holds it, and Len() is the number of keys
C28_MapMatchesArray ==
    /\ cidLen = Cardinality(cidMap)
    /\ \A c \in Cids : c \in cidMap <=> Count(cidArray, cidLen, c) = 1

\* C29: the init signal is sent at most once: at most one AddCidInfo call ever
\* commits to the send on initC (one that is at the send, or the one whose send
\* the orchestrator has received)
C29_InitSentOnce ==
    Cardinality({c \in Cids : callPc[c] = "sendInit"})
        + (IF orchPc # "waitInit" THEN 1 ELSE 0) <= 1

\* C24: the record list OpenEncodedJSONFile builds from the concatenated documents
\* is the concatenation of the lists OpenSimpleJSONFile builds from each document,
\* and the list OpenMultipleEncodedJSONFiles builds from the single files
C24_EncodedEqualsSimple ==
    jsonPc = "done" =>
        /\ encOut = simpleOut
        /\ encOut = OpenMultipleEncodedJSONFiles(docs)

\* C30 (termination): for every finite record list readCIDs eventually leaves its
\* loop and calls wg.Done(), and so does generateCids after cidNumber calls
C30_ReadersTerminate == <>(rdPc = "done" /\ gcPc = "done")

\* C30 (generator half): generateCids makes exactly cidNumber calls to GetNewCid
\* and has sent one CID per successful call when it calls wg.Done()
C30_GeneratorCalls ==
    /\ gcCalls <= CidNumber
    /\ Len(gcOut) <= gcCalls
    /\ gcPc = "done" => gcCalls = CidNumber

C22_AbsentCidPanics ==
    [][(/\ LisRecv
        /\ Head(msgNotChannel).Type = "ADD_PROVIDER"
        /\ \/ ~Head(msgNotChannel).KeyOk
           \/ Head(msgNotChannel).Key \notin cidSet
           \/ ~firstCidFetchRes[Head(msgNotChannel).Key].stored)
          => /\ lisPc' = "panicked"
             /\ UNCHANGED <<cidSet, cidInfo, firstCidFetchRes>>]_vars

\* the listener has panicked on an event of a CID that is in the cidSet but has
\* no round-0 slot yet
C22_Witness ==
    /\ lisPc = "panicked"
    /\ lisCid \in cidSet
    /\ ~firstCidFetchRes[lisCid].stored

\* C23: an event that is not ADD_PROVIDER, or whose key does not decode as a CID,
\* is dropped: nothing is modified, no completion signal is raised and the
\* listener goes on to the next event
C23_ProtocolErrorDropped ==
    [][(/\ LisRecv
        /\ \/ Head(msgNotChannel).Type # "ADD_PROVIDER"
           \/ ~Head(msgNotChannel).KeyOk)
          => /\ lisPc' = "select"
             /\ UNCHANGED <<cidSet, cidInfo, firstCidFetchRes, doneSent>>]_vars

====
